---- MODULE Spec2Model ----
(***************************************************************************)
(* The organization statistics aggregator (scripts/generateGitHubStats.ts, *)
(* src/unnamed/part_000) as a state machine: the module-level credential   *)
(* check, fetchWithAuth, fetchAllPages, fetchSearchCount, fetchOrgStats,   *)
(* formatNumber, generateProgressBar, generateSVG and main.                *)
(* Each remote call is three steps (request issued, response               *)
(* received, pause elapsed and body parsed); the remote side answers every *)
(* request nondeterministically with its genuine answer or with a failure. *)
(***************************************************************************)
EXTENDS Integers, Sequences, FiniteSets, TLC

(***************************************************************************)
(* Bounds of the model.                                                    *)
(***************************************************************************)
\* longest repository inventory (cache file or listing page) considered
MaxRepos == 2
\* number of full pages the largest release collection spans
MaxFullPages == 2
\* number of failing or malformed answers the remote side gives in one run
MaxFaults == 2

\* largest count rendered among the inputs of the rendering on its own
MaxFormatted == 2100
\* largest value of one entry of a progress bar among those inputs
MaxSegment == 3

\* number of times analytics.json changes while one request is served
MaxFileChanges == 2

(***************************************************************************)
(* Program constants.                                                      *)
(***************************************************************************)
PER_PAGE == 100
SLEEP_MS == 200
ERR_TEXT_MAX == 100
OK_STATUS == 200

(***************************************************************************)
(* JSON values.  An optional field is <<>> when missing or null and <<v>>  *)
(* when present.                                                           *)
(***************************************************************************)
None == <<>>
Some(v) == <<v>>
\* `x || 0` on a number-or-missing field
OrZero(f) == IF f = None THEN 0 ELSE f[1]

JsonNull == [t |-> "null"]
JsonObject == [t |-> "object"]
JsonArray(items) == [t |-> "array", items |-> items]
\* a body res.json() cannot parse
Unparsable == [t |-> "unparsable"]

IsNull(v) == v.t = "null"
IsArray(v) == v.t = "array"

RECURSIVE SumNums(_)
SumNums(s) == IF s = <<>> THEN 0 ELSE s[1] + SumNums(Tail(s))

Min(a, b) == IF a < b THEN a ELSE b
Max(a, b) == IF a > b THEN a ELSE b

\* all sequences over S of length at most n
SeqsUpTo(S, n) == UNION {[1..k -> S] : k \in 0..n}

\* the inventories over S: at most n items, no repository named twice
Inventories(S, n) ==
  {l \in SeqsUpTo(S, n) : \A i, j \in 1..Len(l) : l[i].name = l[j].name => i = j}

(***************************************************************************)
(* The data: cache entries (OverviewData.repos), listing items (RepoMeta), *)
(* and what the remote side holds for each repository.                     *)
(***************************************************************************)
CacheEntries ==
  { [t |-> "object", name |-> "a", stars |-> Some(10), forks |-> Some(1)],
    [t |-> "object", name |-> "b", stars |-> Some(20), forks |-> Some(2)],
    [t |-> "object", name |-> "c", stars |-> None, forks |-> None] }

LiveItems ==
  { [t |-> "object", name |-> "a", stargazers_count |-> Some(10), forks_count |-> Some(1),
     watchers_count |-> 10, open_issues_count |-> 4, size |-> 512, license |-> Some("MIT")],
    [t |-> "object", name |-> "b", stargazers_count |-> Some(20), forks_count |-> Some(2),
     watchers_count |-> 20, open_issues_count |-> 6, size |-> 1536, license |-> Some("MIT")],
    [t |-> "object", name |-> "c", stargazers_count |-> None, forks_count |-> None,
     watchers_count |-> 7, open_issues_count |-> 0, size |-> 1048576, license |-> None] }

\* the detail records the remote side may serve for a repository
DetailBodies(name) ==
  CASE name = "a" -> { [t |-> "object", subscribers_count |-> Some(3), size |-> Some(512),
                        license |-> Some("MIT")] }
    [] name = "b" -> { [t |-> "object", subscribers_count |-> Some(5), size |-> Some(1536),
                        license |-> Some("MIT")] }
    [] OTHER -> { [t |-> "object", subscribers_count |-> None, size |-> Some(1048576),
                   license |-> Some("Apache-2.0")],
                  [t |-> "object", subscribers_count |-> Some(1), size |-> None,
                   license |-> None] }

\* the number of releases the remote side holds for a repository
ReleaseCount(name) ==
  CASE name = "a" -> 1
    [] name = "b" -> 1
    [] OTHER -> MaxFullPages * PER_PAGE + 37

\* ... and the sizes its collection may have while it is being paged through: the
\* largest collection may lose its last, partial page
ReleaseCounts(name) ==
  IF ReleaseCount(name) < PER_PAGE THEN {ReleaseCount(name)}
  ELSE {ReleaseCount(name), (ReleaseCount(name) \div PER_PAGE) * PER_PAGE}

\* the items of page p of a collection of n items, per_page = 100
PageItems(n, p) ==
  LET first == (p - 1) * PER_PAGE + 1
      last == Min(p * PER_PAGE, n)
  IN  [i \in 1..Max(0, last - first + 1) |-> first + i - 1]

\* the six search queries of fetchOrgStats, in program order
Queries ==
  << "is:issue is:open", "is:issue is:closed", "is:pr is:open draft:false",
     "is:pr is:merged", "is:pr is:closed is:unmerged", "is:pr draft:true" >>

\* the total match count the remote side reports for a query
SearchTotal(query) ==
  CASE query = Queries[1] -> 4
    [] query = Queries[2] -> 6
    [] query = Queries[3] -> 1
    [] query = Queries[4] -> 2
    [] query = Queries[5] -> 0
    [] OTHER -> 1

(***************************************************************************)
(* HTTP answers.                                                           *)
(***************************************************************************)
Text(n) == [i \in 1..n |-> i]

NetErr == [kind |-> "neterr"]
HttpErr(status, text) == [kind |-> "http", ok |-> FALSE, status |-> status, text |-> text]
HttpOk(body) == [kind |-> "http", ok |-> TRUE, status |-> OK_STATUS, body |-> body]

\* answers that make fetchWithAuth throw
FailedAnswers ==
  {NetErr, HttpOk(Unparsable)}
    \cup {HttpErr(403, Text(5)), HttpErr(404, Text(ERR_TEXT_MAX)),
          HttpErr(500, Text(ERR_TEXT_MAX + 30))}

\* the genuine answer(s) to a request
GenuineAnswers(url) ==
  CASE url.ep = "listing" ->
         {HttpOk(JsonArray(items)) : items \in Inventories(LiveItems, MaxRepos)}
    [] url.ep = "releases" ->
         {HttpOk(JsonArray(PageItems(n, url.page))) : n \in ReleaseCounts(url.name)}
    [] url.ep = "detail" ->
         {HttpOk(b) : b \in DetailBodies(url.name)}
    [] OTHER ->
         {HttpOk([t |-> "object", total_count |-> Some(SearchTotal(url.name))])}

\* 2xx answers with a body of the wrong shape
MalformedAnswers(url) ==
  CASE url.ep = "listing" ->
         {HttpOk(JsonNull), HttpOk(JsonObject)}
           \cup {HttpOk(JsonArray(Append(items, JsonNull))) :
                   items \in Inventories(LiveItems, MaxRepos - 1)}
    [] url.ep = "releases" -> {HttpOk(JsonNull), HttpOk(JsonObject)}
    [] url.ep = "detail" -> {HttpOk(JsonNull)}
    [] OTHER -> {HttpOk(JsonNull), HttpOk([t |-> "object", total_count |-> None])}

FaultyAnswers(url) == FailedAnswers \cup MalformedAnswers(url)

(***************************************************************************)
(* State.                                                                  *)
(***************************************************************************)
VARIABLES
  token,          \* TRUE iff process.env.GITHUB_TOKEN is set
  cache,          \* the overview.json file on disk
  pc,             \* position of the single thread of control
  exitCode,       \* <<>> while running, <<code>> once the process has exited
  useLocalData, repos, totalStars, totalForks,                 \* fetchOrgStats locals
  totalWatchers, totalReleases, totalSizeKB, licenseCount, idx,
  preferredLicense, counts,
  pgFor, pgName, page, results,                                \* fetchAllPages locals
  caller, req, res, fres,                                      \* fetchWithAuth
  stats,          \* <<>> or <<the record fetchOrgStats returned>>
  artifact,       \* the contents written to github-stats.svg, one per write
  fsOps,          \* history: the fs operations performed
  netCalls,       \* history: TRUE once any remote request has been issued
  inFlight,       \* history: remote requests issued and not yet answered
  lastCall,       \* history: the latest remote request issued
  slept,          \* history: milliseconds the current call has paused
  pageCalls,      \* history: pages requested by the current fetchAllPages
  served,         \* history: answers given to the current paginator, detail or search call
  warned,         \* history: warnings logged by the current paginator or search
  detailOk,       \* history: per repository, the detail body that was added, if any
  enrichLog,      \* history: the sub-steps of the enrichment loop begun so far
  faults,         \* history: failing or malformed answers given so far
  analytics,      \* the analytics.json file on disk, as the route handler finds it
  routePc,        \* position of the route handler GET
  response,       \* <<>> or <<the response GET returned>>
  fileChanges     \* history: changes made to analytics.json while GET runs

vars ==
  << token, cache, pc, exitCode, useLocalData, repos, totalStars, totalForks,
     totalWatchers, totalReleases, totalSizeKB, licenseCount, idx, preferredLicense,
     counts, pgFor, pgName, page, results, caller, req, res, fres, stats, artifact,
     fsOps, netCalls, inFlight, lastCall, slept, pageCalls, served, warned, detailOk,
     enrichLog, faults, analytics, routePc, response, fileChanges >>

orgVars ==
  << useLocalData, repos, totalStars, totalForks, totalWatchers, totalReleases,
     totalSizeKB, licenseCount, idx, preferredLicense, counts >>
pageVars == << pgFor, pgName, page, results >>
routeVars == << analytics, routePc, response, fileChanges >>
fetchVars == << caller, req, res, fres >>
histVars ==
  << fsOps, netCalls, inFlight, lastCall, slept, pageCalls, served, warned, detailOk,
     enrichLog, faults >>


(***************************************************************************)
(* Pure helpers of fetchOrgStats and main.                                 *)
(***************************************************************************)
WellFormedEntry == [t |-> "object", name |-> "a", stars |-> Some(10), forks |-> Some(1)]

\* the states the overview.json file can be in
CacheStates ==
  { [kind |-> "absent"], [kind |-> "unreadable"], [kind |-> "unparsable"],
    [kind |-> "json", value |-> JsonNull],
    [kind |-> "json", value |-> [t |-> "object", repos |-> None]],
    [kind |-> "json", value |-> [t |-> "object", repos |-> Some(<<WellFormedEntry, JsonNull>>)]] }
    \cup { [kind |-> "json", value |-> [t |-> "object", repos |-> Some(l)]] :
             l \in Inventories(CacheEntries, MaxRepos) }

\* lines 171-179: an overview entry as a RepoMeta
CacheToMeta(e) ==
  [t |-> "object", name |-> e.name, stargazers_count |-> e.stars, forks_count |-> e.forks,
   watchers_count |-> 0, open_issues_count |-> 0, size |-> 0, license |-> None]

\* a reduce over list elements that dereferences each one throws on a null element
HasNullItem(l) == \E i \in 1..Len(l) : IsNull(l[i])

\* lines 153-189: the try block over the cache file and its catch
ReadOverviewResult(c) ==
  LET fallback == [useLocalData |-> FALSE, totalStars |-> 0, totalForks |-> 0, repos |-> <<>>]
  IN  IF c.kind # "json" THEN fallback
      ELSE IF IsNull(c.value) THEN fallback
      ELSE IF c.value.repos = None THEN fallback
      ELSE LET l == c.value.repos[1]
           IN  IF HasNullItem(l) THEN fallback
               ELSE [useLocalData |-> TRUE,
                     totalStars |-> SumNums([i \in 1..Len(l) |-> OrZero(l[i].stars)]),
                     totalForks |-> SumNums([i \in 1..Len(l) |-> OrZero(l[i].forks)]),
                     repos |-> [i \in 1..Len(l) |-> CacheToMeta(l[i])]]

\* the fs calls the try block makes on the cache file
ReadOverviewOps(c) ==
  IF c.kind = "absent" THEN {"existsSync"} ELSE {"existsSync", "readFileSync"}

\* the stars summed over the listing's watchers_count field
LiveStars_Watchers(l) == SumNums([i \in 1..Len(l) |-> l[i].watchers_count])

\* lines 195-199 over the live listing
LiveStars(l) == SumNums([i \in 1..Len(l) |-> OrZero(l[i].stargazers_count)])
LiveForks(l) == SumNums([i \in 1..Len(l) |-> OrZero(l[i].forks_count)])

\* lines 220-223: one more occurrence of a license identifier, keys in insertion order
Tally(lc, id) ==
  IF \E i \in 1..Len(lc) : lc[i].id = id
    THEN [i \in 1..Len(lc) |-> IF lc[i].id = id THEN [lc[i] EXCEPT !.n = @ + 1] ELSE lc[i]]
    ELSE Append(lc, [id |-> id, n |-> 1])

\* an unstable sort: e goes in front of the entries of equal count
InsertDesc_TiesLast(sorted, e) ==
  LET k == Cardinality({i \in 1..Len(sorted) : sorted[i].n > e.n})
  IN  SubSeq(sorted, 1, k) \o <<e>> \o SubSeq(sorted, k + 1, Len(sorted))

\* a stable sort by descending count: e goes behind every entry that is not smaller
InsertDesc(sorted, e) ==
  LET k == Cardinality({i \in 1..Len(sorted) : sorted[i].n >= e.n})
  IN  SubSeq(sorted, 1, k) \o <<e>> \o SubSeq(sorted, k + 1, Len(sorted))

RECURSIVE SortDesc(_)
SortDesc(lc) ==
  IF lc = <<>> THEN <<>> ELSE InsertDesc(SortDesc(SubSeq(lc, 1, Len(lc) - 1)), lc[Len(lc)])

\* lines 240-241
PreferredLicense(lc) == IF lc = <<>> THEN None ELSE Some(SortDesc(lc)[1].id)

\* the kilobytes divided by 1024 once only: megabytes
ToFixed2_MB(kb) == (kb * 100 * 2 + 1024) \div (2 * 1024)

\* line 256: (kb / 1024 / 1024).toFixed(2), as a number of hundredths
ToFixed2(kb) == (kb * 100 * 2 + 1024 * 1024) \div (2 * 1024 * 1024)

(***************************************************************************)
(* Rendering (lines 312-487).  A rendered text is a record: a literal      *)
(* label, or a decimal numeral with its integer part, an optional digit    *)
(* after the point and a suffix.  A length along a bar is a whole number   *)
(* of units, the bar stating how many units make one pixel; the model      *)
(* leaves out the rounding of the quotient and product to binary doubles.  *)
(***************************************************************************)
Literal(text) == [kind |-> "literal", text |-> text]
Numeral(int, frac, suffix) == [kind |-> "numeral", int |-> int, frac |-> frac, suffix |-> suffix]

\* Number.prototype.toString and template interpolation of a non-negative integer
toString(num) == Numeral(num, None, "")

\* the largest e with 1000 * 2^e <= num: the binary exponent of num / 1000
RECURSIVE BinaryExponent(_)
BinaryExponent(num) == IF num < 2000 THEN 0 ELSE 1 + BinaryExponent(num \div 2)

RECURSIVE Pow2Mod(_, _)
Pow2Mod(k, m) == IF k = 0 THEN 1 % m ELSE (2 * Pow2Mod(k - 1, m)) % m

\* num / 1000 as a binary double (53 significant bits, round to nearest) against
\* the exact quotient: -1 when the double is smaller, 0 when equal, 1 when larger.
\* The double is a multiple of 2^(e-52); the remainder of num * 2^(52-e) by 1000
\* tells which way the quotient was rounded, and is never 500.
DoubleError(num) ==
  LET r == ((num % 1000) * Pow2Mod(52 - BinaryExponent(num), 1000)) % 1000
  IN  IF r = 0 THEN 0 ELSE IF r < 500 THEN -1 ELSE 1

\* line 314: (num / 1000).toFixed(1), as a number of tenths: the tenth nearest to
\* the exact value of the double, the larger one of two equally near
ToFixed1(num) ==
  LET below == num \div 100
      rest == num % 100
  IN  IF rest < 50 THEN below
      ELSE IF rest > 50 THEN below + 1
      ELSE IF DoubleError(num) < 0 THEN below ELSE below + 1

\* line 314: replace(/\.0$/, "") and the suffix
StripZero(tenths) ==
  Numeral(tenths \div 10, IF tenths % 10 = 0 THEN None ELSE Some(tenths % 10), "k")

\* lines 312-317
formatNumber(num) == IF num >= 1000 THEN StripZero(ToFixed1(num)) ELSE toString(num)

NEUTRAL == "#3f3f46"

\* every segment drawn at the left edge: x is never advanced
Segments_Overlap(values, width, x) ==
  LET drawn == SelectSeq(values, LAMBDA v : v.value * width > 0)
  IN  [i \in 1..Len(drawn) |->
         [x |-> x, width |-> drawn[i].value * width, fill |-> drawn[i].color]]

\* lines 332-341: the loop over the values, lengths in units of 1/total pixel
RECURSIVE Segments(_, _, _)
Segments(values, width, x) ==
  IF values = <<>> THEN <<>>
  ELSE LET segmentWidth == values[1].value * width
       IN  IF segmentWidth > 0
             THEN <<[x |-> x, width |-> segmentWidth, fill |-> values[1].color]>>
                    \o Segments(Tail(values), width, x + segmentWidth)
             ELSE Segments(Tail(values), width, x)

\* lines 319-353
generateProgressBar(values, width) ==
  LET total == SumNums([i \in 1..Len(values) |-> values[i].value])
  IN  IF total = 0
        THEN [perPixel |-> 1, rects |-> <<[x |-> 0, width |-> width, fill |-> NEUTRAL]>>]
        ELSE [perPixel |-> total, rects |-> Segments(values, width, 0)]

BAR_WIDTH == 180

\* `v || "N/A"`: a count of 0 is replaced too
OrNA_Falsy(v) == IF v = None \/ v[1] = 0 THEN Literal("N/A") ELSE toString(v[1])

\* lines 418, 427: `v ?? "N/A"`
OrNA(v) == IF v = None THEN Literal("N/A") ELSE toString(v[1])

\* lines 355-487: the texts and bars of the artifact
generateSVG(s) ==
  [ repositories |-> toString(s.totalRepos),
    license |-> IF s.preferredLicense = None THEN Literal("Various")
                ELSE Literal(s.preferredLicense[1]),
    releases |-> toString(s.totalReleases),
    packages |-> OrNA(s.totalPackages),
    storageGB |-> s.totalSizeGB,
    sponsors |-> OrNA(s.sponsors),
    stargazers |-> formatNumber(s.totalStars),
    forkers |-> formatNumber(s.totalForks),
    watchers |-> formatNumber(s.totalWatchers),
    issuesBar |-> generateProgressBar(
                    << [value |-> s.issues.open, color |-> "#22c55e"],
                       [value |-> s.issues.closed, color |-> "#a855f7"] >>, BAR_WIDTH),
    prsBar |-> generateProgressBar(
                 << [value |-> s.pullRequests.open, color |-> "#22c55e"],
                    [value |-> s.pullRequests.merged, color |-> "#a855f7"],
                    [value |-> s.pullRequests.closed, color |-> "#ef4444"] >>, BAR_WIDTH),
    issuesOpen |-> formatNumber(s.issues.open),
    issuesClosed |-> formatNumber(s.issues.closed),
    prsOpen |-> formatNumber(s.pullRequests.open),
    prsMerged |-> formatNumber(s.pullRequests.merged),
    prsDrafts |-> toString(s.pullRequests.drafts),
    prsClosed |-> formatNumber(s.pullRequests.closed) ]

(***************************************************************************)
(* Initial state: the process has been started, nothing has run.           *)
(***************************************************************************)
NoUrl == [ep |-> "none", name |-> "", page |-> 0]
NoAnswer == [kind |-> "none"]
NoResult == [threw |-> FALSE, val |-> JsonNull, err |-> [type |-> "none"]]
NoFile == [kind |-> "absent", parses |-> FALSE, value |-> "", indent |-> 0]
\* no request is being served
RouteIdle ==
  analytics = NoFile /\ routePc = "idle" /\ response = None /\ fileChanges = 0

Init ==
  /\ token \in BOOLEAN
  /\ cache \in CacheStates
  /\ pc = "load"
  /\ exitCode = None
  /\ useLocalData = FALSE /\ repos = <<>> /\ totalStars = 0 /\ totalForks = 0
  /\ totalWatchers = 0 /\ totalReleases = 0 /\ totalSizeKB = 0 /\ licenseCount = <<>>
  /\ idx = 1 /\ preferredLicense = None /\ counts = <<>>
  /\ pgFor = "none" /\ pgName = "" /\ page = 1 /\ results = <<>>
  /\ caller = "none" /\ req = NoUrl /\ res = NoAnswer /\ fres = NoResult
  /\ stats = None /\ artifact = <<>>
  /\ fsOps = {} /\ netCalls = FALSE /\ inFlight = 0 /\ lastCall = NoUrl /\ slept = 0
  /\ pageCalls = <<>> /\ served = <<>>
  /\ warned = 0 /\ detailOk = <<>> /\ enrichLog = <<>> /\ faults = 0
  /\ RouteIdle


(***************************************************************************)
(* Module load and main.                                                   *)
(***************************************************************************)
\* lines 17-21: without the credential the module throws while loading; the
\* exception is uncaught (main is never called) and the process exits non-zero
\* the credential check left out
LoadOutcome_NoCheck(tok) == [pc |-> "main", exitCode |-> None]

LoadOutcome(tok) ==
  IF tok THEN [pc |-> "main", exitCode |-> None] ELSE [pc |-> "exit", exitCode |-> Some(1)]

TokenCheck ==
  /\ pc = "load"
  /\ pc' = LoadOutcome(token).pc
  /\ exitCode' = LoadOutcome(token).exitCode
  /\ UNCHANGED << routeVars, token, cache, orgVars, pageVars, fetchVars, stats, artifact,
                  histVars >>

\* lines 148-189: fetchOrgStats up to the end of the try/catch over the cache file
ReadOverview ==
  /\ pc = "main"
  /\ LET r == ReadOverviewResult(cache)
     IN  /\ useLocalData' = r.useLocalData
         /\ totalStars' = r.totalStars
         /\ totalForks' = r.totalForks
         /\ repos' = r.repos
  /\ fsOps' = fsOps \cup ReadOverviewOps(cache)
  /\ pc' = "inventory"
  /\ UNCHANGED << routeVars, token, cache, exitCode, totalWatchers, totalReleases, totalSizeKB,
                  licenseCount, idx, preferredLicense, counts, pageVars, fetchVars, stats,
                  artifact, netCalls, inFlight, lastCall, slept, pageCalls, served,
                  warned, detailOk,
                  enrichLog, faults >>

\* lines 89-91: a call of fetchAllPages begins
BeginPages(ep, name) ==
  /\ pgFor' = ep /\ pgName' = name /\ page' = 1 /\ results' = <<>>
  /\ pageCalls' = <<>> /\ served' = <<>> /\ warned' = 0
  /\ pc' = "pageLoop"

\* the listing fetched whether or not the cache was used
ChooseSource_AlwaysLists ==
  /\ pc = "inventory"
  /\ BeginPages("listing", "")
  /\ UNCHANGED << routeVars, token, cache, exitCode, orgVars, fetchVars, stats, artifact, fsOps,
                  netCalls, inFlight, lastCall, slept, detailOk, enrichLog, faults >>

\* lines 192-194: the listing is fetched only when the cache was not used
ChooseSource ==
  /\ pc = "inventory"
  /\ IF useLocalData
       THEN /\ pc' = "enrich"
            /\ UNCHANGED << pageVars, pageCalls, served, warned >>
       ELSE BeginPages("listing", "")
  /\ UNCHANGED << routeVars, token, cache, exitCode, orgVars, fetchVars, stats, artifact, fsOps,
                  netCalls, inFlight, lastCall, slept, detailOk, enrichLog, faults >>

(***************************************************************************)
(* fetchWithAuth (lines 72-87).                                            *)
(***************************************************************************)
\* line 73: the request is sent
Call(url, who) ==
  /\ req' = url /\ caller' = who /\ res' = NoAnswer /\ fres' = NoResult
  /\ netCalls' = TRUE /\ inFlight' = inFlight + 1 /\ lastCall' = url /\ slept' = 0
  /\ pc' = "fetch"

\* where control continues when fetchWithAuth returns or throws
After(who) ==
  CASE who = "pages" -> "pageResult"
    [] who = "detail" -> "detailResult"
    [] OTHER -> "searchResult"

\* the body text put into the error whole
UpstreamError_Whole(r) ==
  [type |-> "GitHub API", status |-> r.status, text |-> r.text]

\* line 82: the error of a non-success status
UpstreamError(r) ==
  [type |-> "GitHub API", status |-> r.status,
   text |-> SubSeq(r.text, 1, Min(ERR_TEXT_MAX, Len(r.text)))]

\* the pause left out: control returns to the caller at once
OnSuccessStatus_NoPause(who) == After(who)

\* line 85: where control goes on a success status, for caller who
OnSuccessStatus(who) == "sleep"

\* lines 73-83: the answer arrives; a rejected fetch or a non-success status throws
FetchRespond ==
  /\ pc = "fetch"
  /\ \E r \in GenuineAnswers(req) \cup FaultyAnswers(req) :
       /\ IF r \in GenuineAnswers(req)
            THEN faults' = faults
            ELSE faults < MaxFaults /\ faults' = faults + 1
       /\ served' = Append(served, r)
       /\ inFlight' = inFlight - 1
       /\ IF r.kind = "neterr"
            THEN /\ fres' = [threw |-> TRUE, val |-> JsonNull, err |-> [type |-> "fetch failed"]]
                 /\ res' = res /\ pc' = After(caller)
            ELSE IF ~r.ok
              THEN /\ fres' = [threw |-> TRUE, val |-> JsonNull, err |-> UpstreamError(r)]
                   /\ res' = res /\ pc' = After(caller)
              ELSE /\ res' = r /\ fres' = fres /\ pc' = OnSuccessStatus(caller)
  /\ UNCHANGED << routeVars, token, cache, exitCode, orgVars, pageVars, caller, req, stats,
                  artifact,
                  fsOps, netCalls, lastCall, slept, pageCalls, warned, detailOk,
                  enrichLog >>

\* lines 85-86: the pause, then the body is parsed and returned
FetchSleep ==
  /\ pc = "sleep"
  /\ slept' = slept + SLEEP_MS
  /\ fres' = IF res.body.t = "unparsable"
               THEN [threw |-> TRUE, val |-> JsonNull, err |-> [type |-> "SyntaxError"]]
               ELSE [threw |-> FALSE, val |-> res.body, err |-> [type |-> "none"]]
  /\ pc' = After(caller)
  /\ UNCHANGED << routeVars, token, cache, exitCode, orgVars, pageVars, caller, req, res, stats,
                  artifact, fsOps, netCalls, inFlight, lastCall, pageCalls, served,
                  warned, detailOk,
                  enrichLog, faults >>

\* the caller has taken the result: the call's locals are gone
Consumed == caller' = "none" /\ req' = NoUrl /\ res' = NoAnswer /\ fres' = NoResult

(***************************************************************************)
(* fetchAllPages (lines 89-110).                                           *)
(***************************************************************************)
\* lines 95-98: the next page is requested
PageRequest ==
  /\ pc = "pageLoop"
  /\ Call([ep |-> pgFor, name |-> pgName, page |-> page], "pages")
  /\ pageCalls' = Append(pageCalls, page)
  /\ UNCHANGED << routeVars, token, cache, exitCode, orgVars, pageVars, stats, artifact, fsOps,
                  served, warned, detailOk, enrichLog, faults >>

\* no catch in the loop: the exception leaves fetchAllPages
OnPageThrow_Rethrow(p, acc, w) ==
  [pc |-> "failed", page |-> p, results |-> acc, warned |-> w]

\* lines 103-106: the catch of the loop logs a warning and breaks
OnPageThrow(p, acc, w) ==
  [pc |-> "pagesDone", page |-> p, results |-> acc, warned |-> w + 1]

\* a body that is not an array is skipped and the next page requested
OnNonArray_Continue(p, acc, w) ==
  [pc |-> "pageLoop", page |-> p + 1, results |-> acc, warned |-> w]

\* line 99: a body that is not an array breaks
OnNonArray(p, acc, w) ==
  [pc |-> "pagesDone", page |-> p, results |-> acc, warned |-> w]

\* the end test off by one: a full page ends the loop too
OnArray_StopsAtFull(items, p, acc, w) ==
  IF Len(items) <= PER_PAGE
    THEN [pc |-> "pagesDone", page |-> p, results |-> acc \o items, warned |-> w]
    ELSE [pc |-> "pageLoop", page |-> p + 1, results |-> acc \o items, warned |-> w]

\* lines 100-102: the items are pushed; a short page breaks, a full one goes on
OnArray(items, p, acc, w) ==
  IF Len(items) < PER_PAGE
    THEN [pc |-> "pagesDone", page |-> p, results |-> acc \o items, warned |-> w]
    ELSE [pc |-> "pageLoop", page |-> p + 1, results |-> acc \o items, warned |-> w]

\* lines 99-106: the body of the loop after the call, and its catch
PageStep(fr, p, acc, w) ==
  IF fr.threw THEN OnPageThrow(p, acc, w)
  ELSE IF IsNull(fr.val) \/ ~IsArray(fr.val) THEN OnNonArray(p, acc, w)
  ELSE OnArray(fr.val.items, p, acc, w)

PageResult ==
  /\ pc = "pageResult"
  /\ LET n == PageStep(fres, page, results, warned)
     IN  pc' = n.pc /\ page' = n.page /\ results' = n.results /\ warned' = n.warned
  /\ Consumed
  /\ UNCHANGED << routeVars, token, cache, exitCode, orgVars, pgFor, pgName, stats,
                  artifact, fsOps, netCalls, inFlight, lastCall, slept, pageCalls, served, detailOk,
                  enrichLog, faults >>


\* the call of fetchAllPages has returned: its locals are gone
EndPages == pgFor' = "none" /\ pgName' = "" /\ page' = 1 /\ results' = <<>>

(***************************************************************************)
(* fetchOrgStats (lines 136-280), from the live listing on.                *)
(***************************************************************************)
\* lines 194-199: the listing is the inventory; the two reduces dereference every
\* item outside any try block, so a null item throws out of fetchOrgStats
ListingReturn ==
  /\ pc = "pagesDone" /\ pgFor = "listing"
  /\ repos' = results
  /\ IF HasNullItem(results)
       THEN pc' = "failed" /\ UNCHANGED << totalStars, totalForks >>
       ELSE /\ totalStars' = LiveStars(results)
            /\ totalForks' = LiveForks(results)
            /\ pc' = "enrich"
  /\ EndPages
  /\ UNCHANGED << routeVars, token, cache, exitCode, useLocalData, totalWatchers, totalReleases,
                  totalSizeKB, licenseCount, idx, preferredLicense, counts, fetchVars,
                  stats, artifact, histVars >>

\* lines 211-216: the next repository's detail call
DetailRequest ==
  /\ pc = "enrich" /\ idx <= Len(repos)
  /\ Call([ep |-> "detail", name |-> repos[idx].name, page |-> 0], "detail")
  /\ served' = <<>>
  /\ enrichLog' = Append(enrichLog, [step |-> "detail", idx |-> idx])
  /\ UNCHANGED << routeVars, token, cache, exitCode, orgVars, pageVars, stats, artifact, fsOps,
                  pageCalls, warned, detailOk, faults >>

\* lines 214-217: the call threw, or returned null and line 217 throws on it
DetailFailed(fr) == fr.threw \/ IsNull(fr.val)

\* a failed detail call made up for with the inventory's own watcher and size fields
Enriched_Fallback(acc, repo, fr) ==
  IF DetailFailed(fr)
    THEN [acc EXCEPT !.watchers = @ + repo.watchers_count, !.sizeKB = @ + repo.size]
    ELSE [ watchers |-> acc.watchers + OrZero(fr.val.subscribers_count),
           sizeKB |-> acc.sizeKB + OrZero(fr.val.size),
           licenses |-> IF fr.val.license = None THEN acc.licenses
                        ELSE Tally(acc.licenses, fr.val.license[1]) ]

\* after a failed detail call the license of the inventory item is tallied instead
Enriched_ListingLicense(acc, repo, fr) ==
  IF DetailFailed(fr)
    THEN [acc EXCEPT !.licenses = IF repo.license = None THEN @
                                   ELSE Tally(@, repo.license[1])]
    ELSE [ watchers |-> acc.watchers + OrZero(fr.val.subscribers_count),
           sizeKB |-> acc.sizeKB + OrZero(fr.val.size),
           licenses |-> IF fr.val.license = None THEN acc.licenses
                        ELSE Tally(acc.licenses, fr.val.license[1]) ]

\* the loop body's first try/catch, for loop variable repo and call result fr
Enriched(acc, repo, fr) ==
  IF DetailFailed(fr) THEN acc
  ELSE [ watchers |-> acc.watchers + OrZero(fr.val.subscribers_count),
         sizeKB |-> acc.sizeKB + OrZero(fr.val.size),
         licenses |-> IF fr.val.license = None THEN acc.licenses
                      ELSE Tally(acc.licenses, fr.val.license[1]) ]

\* one try block around both sub-steps: a failed detail call skips the releases
DetailResult_Abort ==
  /\ pc = "detailResult"
  /\ LET n == Enriched([watchers |-> totalWatchers, sizeKB |-> totalSizeKB,
                        licenses |-> licenseCount], repos[idx], fres)
     IN  /\ totalWatchers' = n.watchers
         /\ totalSizeKB' = n.sizeKB
         /\ licenseCount' = n.licenses
  /\ detailOk' = Append(detailOk, IF DetailFailed(fres) THEN None ELSE Some(fres.val))
  /\ IF DetailFailed(fres)
       THEN /\ pc' = "enrich" /\ idx' = idx + 1
            /\ UNCHANGED << pageVars, pageCalls, served, warned, enrichLog >>
       ELSE /\ BeginPages("releases", repos[idx].name)
            /\ enrichLog' = Append(enrichLog, [step |-> "releases", idx |-> idx])
            /\ idx' = idx
  /\ Consumed
  /\ UNCHANGED << routeVars, token, cache, exitCode, useLocalData, repos, totalStars, totalForks,
                  totalReleases, preferredLicense, counts, stats, artifact, fsOps,
                  netCalls, inFlight, lastCall, slept, faults >>

\* lines 217-226: a returned detail is added to the three accumulators (a null
\* body throws at the first of them); then lines 229-232 begin the releases
DetailResult ==
  /\ pc = "detailResult"
  /\ LET n == Enriched([watchers |-> totalWatchers, sizeKB |-> totalSizeKB,
                        licenses |-> licenseCount], repos[idx], fres)
     IN  /\ totalWatchers' = n.watchers
         /\ totalSizeKB' = n.sizeKB
         /\ licenseCount' = n.licenses
  /\ detailOk' = Append(detailOk, IF DetailFailed(fres) THEN None ELSE Some(fres.val))
  /\ BeginPages("releases", repos[idx].name)
  /\ enrichLog' = Append(enrichLog, [step |-> "releases", idx |-> idx])
  /\ Consumed
  /\ UNCHANGED << routeVars, token, cache, exitCode, useLocalData, repos, totalStars, totalForks,
                  totalReleases, idx, preferredLicense, counts, stats, artifact, fsOps,
                  netCalls, inFlight, lastCall, slept, faults >>

\* lines 233 and 237: the releases are counted, the loop goes on
ReleasesReturn ==
  /\ pc = "pagesDone" /\ pgFor = "releases"
  /\ totalReleases' = totalReleases + Len(results)
  /\ idx' = idx + 1
  /\ pc' = "enrich"
  /\ EndPages
  /\ UNCHANGED << routeVars, token, cache, exitCode, useLocalData, repos, totalStars, totalForks,
                  totalWatchers, totalSizeKB, licenseCount, preferredLicense, counts,
                  fetchVars, stats, artifact, histVars >>

\* lines 240-241: the loop is over, the license is resolved
EnrichDone ==
  /\ pc = "enrich" /\ idx > Len(repos)
  /\ preferredLicense' = PreferredLicense(licenseCount)
  /\ pc' = "search"
  /\ UNCHANGED << routeVars, token, cache, exitCode, useLocalData, repos, totalStars, totalForks,
                  totalWatchers, totalReleases, totalSizeKB, licenseCount, idx, counts,
                  pageVars, fetchVars, stats, artifact, histVars >>

(***************************************************************************)
(* fetchSearchCount (lines 112-122), called six times (lines 245-254).     *)
(***************************************************************************)
NumQueries == Len(Queries)

\* lines 114-116: the single call of one search
SearchRequest ==
  /\ pc = "search" /\ Len(counts) < NumQueries
  /\ Call([ep |-> "search", name |-> Queries[Len(counts) + 1], page |-> 0], "search")
  /\ served' = <<>> /\ warned' = 0
  /\ UNCHANGED << routeVars, token, cache, exitCode, orgVars, pageVars, stats, artifact, fsOps,
                  pageCalls, detailOk, enrichLog, faults >>

\* the count read from a field the body does not have
SearchValue_WrongField(r) == 0

\* lines 117-121: data?.total_count || 0, or 0 with a warning from the catch
SearchValue(r) ==
  IF r.threw THEN 0
  ELSE IF IsNull(r.val) THEN 0
  ELSE OrZero(r.val.total_count)

SearchResult ==
  /\ pc = "searchResult"
  /\ counts' = Append(counts, SearchValue(fres))
  /\ warned' = IF fres.threw THEN warned + 1 ELSE warned
  /\ pc' = "search"
  /\ Consumed
  /\ UNCHANGED << routeVars, token, cache, exitCode, useLocalData, repos, totalStars, totalForks,
                  totalWatchers, totalReleases, totalSizeKB, licenseCount, idx,
                  preferredLicense, pageVars, stats, artifact, fsOps, netCalls, inFlight,
                  lastCall, slept,
                  pageCalls, served, detailOk, enrichLog, faults >>

\* the draft pull requests reported as draft issues too
OrgStats_DraftIssues ==
  [ totalRepos |-> Len(repos),
    totalStars |-> totalStars,
    totalForks |-> totalForks,
    totalWatchers |-> totalWatchers,
    totalReleases |-> totalReleases,
    totalPackages |-> None,
    totalSizeGB |-> ToFixed2(totalSizeKB),
    preferredLicense |-> preferredLicense,
    sponsors |-> None,
    issues |-> [open |-> counts[1], closed |-> counts[2], drafts |-> counts[6]],
    pullRequests |-> [open |-> counts[3], merged |-> counts[4], closed |-> counts[5],
                      drafts |-> counts[6]] ]

\* lines 256-279: the record fetchOrgStats returns
OrgStats ==
  [ totalRepos |-> Len(repos),
    totalStars |-> totalStars,
    totalForks |-> totalForks,
    totalWatchers |-> totalWatchers,
    totalReleases |-> totalReleases,
    totalPackages |-> None,
    totalSizeGB |-> ToFixed2(totalSizeKB),
    preferredLicense |-> preferredLicense,
    sponsors |-> None,
    issues |-> [open |-> counts[1], closed |-> counts[2], drafts |-> 0],
    pullRequests |-> [open |-> counts[3], merged |-> counts[4], closed |-> counts[5],
                      drafts |-> counts[6]] ]

\* the artifact written by fetchOrgStats as well, before main writes it
ReturnStats_Writes ==
  /\ pc = "search" /\ Len(counts) = NumQueries
  /\ stats' = Some(OrgStats)
  /\ artifact' = Append(artifact, generateSVG(OrgStats))
  /\ pc' = "render"
  /\ UNCHANGED << routeVars, token, cache, exitCode, orgVars, pageVars, fetchVars, histVars >>

ReturnStats ==
  /\ pc = "search" /\ Len(counts) = NumQueries
  /\ stats' = Some(OrgStats)
  /\ pc' = "render"
  /\ UNCHANGED << routeVars, token, cache, exitCode, orgVars, pageVars, fetchVars, artifact,
                  histVars >>

(***************************************************************************)
(* main (lines 493-522).                                                   *)
(***************************************************************************)
\* lines 511-517: the artifact is rendered and written; main returns
WriteArtifact ==
  /\ pc = "render"
  /\ artifact' = Append(artifact, generateSVG(stats[1]))
  /\ fsOps' = fsOps \cup {"writeFileSync"}
  /\ exitCode' = Some(0)
  /\ pc' = "exit"
  /\ UNCHANGED << routeVars, token, cache, orgVars, pageVars, fetchVars, stats, netCalls, inFlight,
                  lastCall, slept,
                  pageCalls, served, warned, detailOk, enrichLog, faults >>

\* lines 519-522: whatever main throws is logged and the process exits 1
MainCatch ==
  /\ pc = "failed"
  /\ exitCode' = Some(1)
  /\ pc' = "exit"
  /\ UNCHANGED << routeVars, token, cache, orgVars, pageVars, fetchVars, stats, artifact,
                  histVars >>

Next ==
  \/ TokenCheck \/ ReadOverview \/ ChooseSource
  \/ FetchRespond \/ FetchSleep
  \/ PageRequest \/ PageResult
  \/ ListingReturn \/ DetailRequest \/ DetailResult \/ ReleasesReturn \/ EnrichDone
  \/ SearchRequest \/ SearchResult \/ ReturnStats
  \/ WriteArtifact \/ MainCatch

Spec == Init /\ [][Next]_vars

\* The run with progress: the single thread takes its next step whenever it has
\* one, every request sent is eventually answered (fetch resolves or rejects) and
\* every pause elapses.  Each state enables at most the steps of one position, so
\* weak fairness of Next is weak fairness of each of them.
SpecFair == Spec /\ WF_vars(Next)

(***************************************************************************)
(* The enrichment loop on its own, over an inventory one repository longer *)
(* than Spec's: the run starts where ChooseSource leaves it after a cache  *)
(* file that was read in full, and ends when the license is resolved.      *)
(***************************************************************************)
InitEnrich ==
  /\ token = TRUE
  /\ cache \in { [kind |-> "json", value |-> [t |-> "object", repos |-> Some(l)]] :
                   l \in Inventories(CacheEntries, MaxRepos + 1) }
  /\ pc = "enrich"
  /\ exitCode = None
  /\ useLocalData = ReadOverviewResult(cache).useLocalData
  /\ repos = ReadOverviewResult(cache).repos
  /\ totalStars = ReadOverviewResult(cache).totalStars
  /\ totalForks = ReadOverviewResult(cache).totalForks
  /\ totalWatchers = 0 /\ totalReleases = 0 /\ totalSizeKB = 0 /\ licenseCount = <<>>
  /\ idx = 1 /\ preferredLicense = None /\ counts = <<>>
  /\ pgFor = "none" /\ pgName = "" /\ page = 1 /\ results = <<>>
  /\ caller = "none" /\ req = NoUrl /\ res = NoAnswer /\ fres = NoResult
  /\ stats = None /\ artifact = <<>>
  /\ fsOps = ReadOverviewOps(cache) /\ netCalls = FALSE /\ inFlight = 0
  /\ lastCall = NoUrl /\ slept = 0
  /\ pageCalls = <<>> /\ served = <<>>
  /\ warned = 0 /\ detailOk = <<>> /\ enrichLog = <<>> /\ faults = 0
  /\ RouteIdle

NextEnrich ==
  \/ DetailRequest \/ FetchRespond \/ FetchSleep \/ DetailResult
  \/ PageRequest \/ PageResult \/ ReleasesReturn \/ EnrichDone

SpecEnrich == InitEnrich /\ [][NextEnrich]_vars

(***************************************************************************)
(* The rendering on its own: main holds a record that fetchOrgStats has    *)
(* returned (the locals of fetchOrgStats are gone) and renders and writes  *)
(* it.  The records vary one group of fields at a time.                    *)
(***************************************************************************)
BaseStats ==
  [ totalRepos |-> 2, totalStars |-> 30, totalForks |-> 3, totalWatchers |-> 8,
    totalReleases |-> 2, totalPackages |-> None, totalSizeGB |-> 0,
    preferredLicense |-> Some("MIT"), sponsors |-> None,
    issues |-> [open |-> 4, closed |-> 6, drafts |-> 0],
    pullRequests |-> [open |-> 1, merged |-> 2, closed |-> 0, drafts |-> 1] ]

RenderInputs ==
  { [BaseStats EXCEPT !.totalStars = n] : n \in (0..MaxFormatted) \cup {999500} }
    \cup { [BaseStats EXCEPT !.issues.open = o, !.issues.closed = c] :
              o \in 0..MaxSegment, c \in 0..MaxSegment }
    \cup { [BaseStats EXCEPT !.pullRequests.open = o, !.pullRequests.merged = m,
                             !.pullRequests.closed = c] :
              o \in 0..MaxSegment, m \in 0..MaxSegment, c \in 0..MaxSegment }
    \cup { [BaseStats EXCEPT !.preferredLicense = l, !.totalPackages = p, !.sponsors = q] :
              l \in {None, Some("MIT"), Some("Apache-2.0")},
              p \in {None, Some(0), Some(12)}, q \in {None, Some(0), Some(7)} }

InitRender ==
  /\ token = TRUE
  /\ cache = [kind |-> "absent"]
  /\ pc = "render"
  /\ exitCode = None
  /\ useLocalData = FALSE /\ repos = <<>> /\ totalStars = 0 /\ totalForks = 0
  /\ totalWatchers = 0 /\ totalReleases = 0 /\ totalSizeKB = 0 /\ licenseCount = <<>>
  /\ idx = 1 /\ preferredLicense = None /\ counts = <<>>
  /\ pgFor = "none" /\ pgName = "" /\ page = 1 /\ results = <<>>
  /\ caller = "none" /\ req = NoUrl /\ res = NoAnswer /\ fres = NoResult
  /\ stats \in {Some(s) : s \in RenderInputs}
  /\ artifact = <<>>
  /\ fsOps = {"existsSync"} /\ netCalls = TRUE /\ inFlight = 0
  /\ lastCall = [ep |-> "search", name |-> Queries[NumQueries], page |-> 0]
  /\ slept = SLEEP_MS
  /\ pageCalls = <<>> /\ served = <<>>
  /\ warned = 0 /\ detailOk = <<>> /\ enrichLog = <<>> /\ faults = 0
  /\ RouteIdle

NextRender == WriteArtifact

SpecRender == InitRender /\ [][NextRender]_vars


(***************************************************************************)
(* The analytics route handler GET (src/unnamed/part_001, lines 100-131),  *)
(* serving one request while other processes may replace or remove the     *)
(* file.  A file is absent, unreadable (a directory, no permission) or a   *)
(* text; a text parses to a value or not, and is written with some         *)
(* indentation, which JSON.parse drops and NextResponse.json does not put  *)
(* back.  Values are documents the analytics generator writes.             *)
(***************************************************************************)
AnalyticsDocs ==
  {"null", "{}", "{repositories: 0}", "{repositories: 12}", "{repositories: 12, stars: 40}"}

FileStates ==
  { NoFile,
    [kind |-> "unreadable", parses |-> FALSE, value |-> "", indent |-> 0],
    [kind |-> "text", parses |-> FALSE, value |-> "", indent |-> 0] }
    \cup { [kind |-> "text", parses |-> TRUE, value |-> d, indent |-> n] :
              d \in AnalyticsDocs, n \in {0, 2} }

\* line 105: fs.existsSync
existsSync(f) == f.kind # "absent"

\* line 111: JSON.parse(fs.readFileSync(path, 'utf-8'))
ReadAndParse(f) ==
  IF f.kind = "text" /\ f.parses THEN [threw |-> FALSE, val |-> f.value]
  ELSE [threw |-> TRUE, val |-> ""]

\* NextResponse.json(data, {status}): the data serialised without indentation
NextResponseJson(status, error, data) ==
  [status |-> status, error |-> error, body |-> [value |-> data, indent |-> 0]]

\* lines 105-109
NotFound == NextResponseJson(404, TRUE, "Analytics data not found")

\* no catch: the exception of the read or the parse leaves GET
OnReadError_Rethrow == [routePc |-> "threw", response |-> None]

\* lines 120-130: the catch answers for every exception of the try block
OnReadError ==
  [routePc |-> "done",
   response |-> Some(NextResponseJson(500, TRUE, "Failed to read analytics data"))]

InitRoute ==
  /\ token = FALSE
  /\ cache = [kind |-> "absent"]
  /\ pc = "load"
  /\ exitCode = None
  /\ useLocalData = FALSE /\ repos = <<>> /\ totalStars = 0 /\ totalForks = 0
  /\ totalWatchers = 0 /\ totalReleases = 0 /\ totalSizeKB = 0 /\ licenseCount = <<>>
  /\ idx = 1 /\ preferredLicense = None /\ counts = <<>>
  /\ pgFor = "none" /\ pgName = "" /\ page = 1 /\ results = <<>>
  /\ caller = "none" /\ req = NoUrl /\ res = NoAnswer /\ fres = NoResult
  /\ stats = None /\ artifact = <<>>
  /\ fsOps = {} /\ netCalls = FALSE /\ inFlight = 0 /\ lastCall = NoUrl /\ slept = 0
  /\ pageCalls = <<>> /\ served = <<>>
  /\ warned = 0 /\ detailOk = <<>> /\ enrichLog = <<>> /\ faults = 0
  /\ analytics \in FileStates
  /\ routePc = "start" /\ response = None /\ fileChanges = 0

jobVars ==
  << token, cache, pc, exitCode, orgVars, pageVars, fetchVars, stats, artifact, histVars >>

\* another process writes, replaces or removes the file
FileChange ==
  /\ routePc \in {"start", "read"} /\ fileChanges < MaxFileChanges
  /\ \E f \in FileStates \ {analytics} : analytics' = f
  /\ fileChanges' = fileChanges + 1
  /\ UNCHANGED << jobVars, routePc, response >>

\* lines 101-109: the existence check
RouteExists ==
  /\ routePc = "start"
  /\ IF existsSync(analytics)
       THEN routePc' = "read" /\ response' = response
       ELSE routePc' = "done" /\ response' = Some(NotFound)
  /\ UNCHANGED << jobVars, analytics, fileChanges >>

\* lines 111-118 and the catch at 120-130: the read, the parse and the answer
RouteRead ==
  /\ routePc = "read"
  /\ LET r == ReadAndParse(analytics)
     IN  IF r.threw
           THEN routePc' = OnReadError.routePc /\ response' = OnReadError.response
           ELSE /\ routePc' = "done"
                /\ response' = Some(NextResponseJson(200, FALSE, r.val))
  /\ UNCHANGED << jobVars, analytics, fileChanges >>

NextRoute == FileChange \/ RouteExists \/ RouteRead

SpecRoute == InitRoute /\ [][NextRoute]_vars

(***************************************************************************)
(* Properties.                                                             *)
(***************************************************************************)
\* what an answer makes fetchWithAuth do
Throws(r) == r.kind = "neterr" \/ ~r.ok \/ r.body.t = "unparsable"
ArrayAnswer(r) == ~Throws(r) /\ r.body.t = "array"
NonArrayAnswer(r) == ~Throws(r) /\ r.body.t # "array"
FullPage(r) == ArrayAnswer(r) /\ Len(r.body.items) = PER_PAGE
ShortPage(r) == ArrayAnswer(r) /\ Len(r.body.items) < PER_PAGE

\* the items of the array answers among s, in order
RECURSIVE ItemsOf(_)
ItemsOf(s) ==
  IF s = <<>> THEN <<>>
  ELSE (IF ArrayAnswer(s[1]) THEN s[1].body.items ELSE <<>>) \o ItemsOf(Tail(s))

Upto(n) == [i \in 1..n |-> i]
InPages == pgFor # "none"
LastServed == served[Len(served)]
BeforeLast == SubSeq(served, 1, Len(served) - 1)
Returning == InPages /\ pc = "pagesDone"

\* C1: against k full pages followed by a short one, fetchAllPages requests pages
\* 1..k+1 in order, never stops after a full page, requests nothing after the short
\* page, and returns exactly the items of the k+1 pages.
C1_FullPagesThenShort ==
  InPages =>
    /\ \A i \in 1..Len(served) : ShortPage(served[i]) => i = Len(served)
    /\ Returning => ~FullPage(LastServed)
    /\ (Returning /\ ShortPage(LastServed)
          /\ \A i \in 1..(Len(served) - 1) : FullPage(served[i]))
         => /\ pageCalls = Upto(Len(served))
            /\ results = ItemsOf(served)
            /\ Len(results) = (Len(served) - 1) * PER_PAGE + Len(LastServed.body.items)

\* page sizes [100, 100, 37]: 3 calls, 237 items
C1_Witness ==
  /\ Returning /\ Len(served) = 3
  /\ FullPage(served[1]) /\ FullPage(served[2]) /\ ShortPage(served[3])
  /\ Len(served[3].body.items) = 37
  /\ pageCalls = <<1, 2, 3>> /\ Len(results) = 237

\* C2: when the fetch of page N throws, fetchAllPages logs a warning, requests no
\* later page, returns the items of pages 1..N-1, and the exception does not leave it.
C2_PageThrowStops ==
  /\ InPages =>
       /\ \A i \in 1..Len(served) : Throws(served[i]) => i = Len(served)
       /\ (Returning /\ Throws(LastServed))
            => /\ warned = 1
               /\ pageCalls = Upto(Len(served))
               /\ results = ItemsOf(BeforeLast)
               /\ Len(results) = (Len(served) - 1) * PER_PAGE
  /\ pc = "failed" => ~InPages

\* the second call throws after a full first page
C2_Witness ==
  /\ Returning /\ Len(served) = 2 /\ FullPage(served[1]) /\ Throws(served[2])
  /\ warned = 1 /\ pageCalls = <<1, 2>> /\ Len(results) = PER_PAGE

\* C3: a page body that is not an array adds nothing, ends the pagination and leaves
\* the items of the prior pages as the result, as a failed page fetch does.
C3_NonArrayStops ==
  InPages =>
    /\ \A i \in 1..Len(served) : NonArrayAnswer(served[i]) => i = Len(served)
    /\ (Returning /\ NonArrayAnswer(LastServed))
         => /\ pageCalls = Upto(Len(served))
            /\ results = ItemsOf(BeforeLast)
            /\ Len(results) = (Len(served) - 1) * PER_PAGE

\* the second page's body is null after a full first page
C3_Witness ==
  /\ Returning /\ Len(served) = 2 /\ FullPage(served[1])
  /\ NonArrayAnswer(served[2]) /\ IsNull(served[2].body)
  /\ Len(results) = PER_PAGE

\* a search has just returned: its value is the last of counts, its answer is served
SearchReturned == pc = "search" /\ counts # <<>>
ReportsTotal(r) == ~Throws(r) /\ ~IsNull(r.body) /\ r.body.total_count # None

\* C4: fetchSearchCount makes one call; it returns the reported total when the call
\* succeeds, 0 with a warning when the call fails, and never throws.
C4_SearchCount ==
  /\ SearchReturned =>
       /\ Len(served) = 1
       /\ ReportsTotal(served[1])
            => counts[Len(counts)] = served[1].body.total_count[1] /\ warned = 0
       /\ Throws(served[1]) => counts[Len(counts)] = 0 /\ warned = 1
  /\ pc = "failed" => counts = <<>> /\ caller # "search"

\* the first search reported 4, the second failed
C4_Witness ==
  /\ SearchReturned /\ Len(counts) = 2
  /\ counts[1] = 4 /\ counts[2] = 0 /\ Throws(served[1]) /\ warned = 1

\* fetchWithAuth has just returned or thrown
FetchEnded == pc \in {"pageResult", "detailResult", "searchResult"}

\* C5: on a non-success status fetchWithAuth throws an error with the status and the
\* first 100 characters of the body, without pausing; a value is returned only on a
\* success status, after the pause, and is the parsed body.
C5_FetchWithAuth ==
  FetchEnded =>
    /\ (LastServed.kind = "http" /\ ~LastServed.ok)
         => /\ fres.threw /\ slept = 0
            /\ fres.err.type = "GitHub API"
            /\ fres.err.status = LastServed.status
            /\ Len(fres.err.text) <= ERR_TEXT_MAX
            /\ fres.err.text =
                 SubSeq(LastServed.text, 1, Min(ERR_TEXT_MAX, Len(LastServed.text)))
    /\ ~fres.threw
         => /\ LastServed.kind = "http" /\ LastServed.ok /\ slept = SLEEP_MS
            /\ fres.val = LastServed.body

\* a 500 with a body of 130 characters: the error carries 100 of them
C5_Witness ==
  /\ FetchEnded /\ fres.threw /\ slept = 0
  /\ LastServed.kind = "http" /\ LastServed.status = 500
  /\ Len(LastServed.text) = ERR_TEXT_MAX + 30
  /\ fres.err.status = 500 /\ Len(fres.err.text) = ERR_TEXT_MAX

\* C6: without the credential nothing runs: no remote call, no fs operation on the
\* cache or the artifact, and the process exits with a non-zero code.
C6_NoTokenAborts ==
  ~token =>
    /\ pc \in {"load", "exit"}
    /\ ~netCalls /\ fsOps = {} /\ artifact = <<>> /\ stats = None
    /\ pc = "exit" => exitCode # None /\ exitCode[1] # 0

\* the credential is missing although a usable cache file is present
C6_Witness ==
  /\ ~token /\ pc = "exit" /\ exitCode = Some(1)
  /\ cache.kind = "json" /\ ~IsNull(cache.value) /\ cache.value.repos # None
  /\ Len(cache.value.repos[1]) = 2 /\ ~HasNullItem(cache.value.repos[1])

\* C7: with the credential present no exception reaches the top level, and a run
\* that ends has produced a statistics record and exits 0.
C7_NeverFatal ==
  token =>
    /\ pc # "failed"
    /\ pc = "exit" => stats # None /\ exitCode = Some(0)


\* the try block over the cache file was entered past existsSync and threw
CacheReadFails ==
  \/ cache.kind \in {"unreadable", "unparsable"}
  \/ /\ cache.kind = "json"
     /\ \/ IsNull(cache.value)
        \/ cache.value.repos = None
        \/ \E i \in 1..Len(cache.value.repos[1]) : IsNull(cache.value.repos[1][i])
StarsOf(l) == SumNums([i \in 1..Len(l) |-> OrZero(l[i].stargazers_count)])
ForksOf(l) == SumNums([i \in 1..Len(l) |-> OrZero(l[i].forks_count)])

\* C8: in every record totalStars and totalForks are the sums over the one list whose
\* length is totalRepos; with the cache used they are the sums over the cached
\* entries; after a failed cache read nothing computed from the cache is left.
C8_StarsForksOneSource ==
  /\ (pc = "inventory" /\ CacheReadFails)
       => ~useLocalData /\ totalStars = 0 /\ totalForks = 0 /\ repos = <<>>
  /\ stats # None =>
       /\ stats[1].totalRepos = Len(repos)
       /\ stats[1].totalStars = StarsOf(repos)
       /\ stats[1].totalForks = ForksOf(repos)
       /\ useLocalData =>
            LET l == cache.value.repos[1]
            IN  /\ stats[1].totalRepos = Len(l)
                /\ stats[1].totalStars = SumNums([i \in 1..Len(l) |-> OrZero(l[i].stars)])
                /\ stats[1].totalForks = SumNums([i \in 1..Len(l) |-> OrZero(l[i].forks)])
       /\ CacheReadFails => ~useLocalData

\* the cache with stars 10/20 and forks 1/2 was used
C8_Witness ==
  /\ stats # None /\ useLocalData /\ stats[1].totalRepos = 2
  /\ stats[1].totalStars = 30 /\ stats[1].totalForks = 3

\* the detail bodies added so far
AddedDetails == SelectSeq(detailOk, LAMBDA d : d # None)
SubscribersAdded ==
  SumNums([i \in 1..Len(AddedDetails) |-> OrZero(AddedDetails[i][1].subscribers_count)])
SizeAdded == SumNums([i \in 1..Len(AddedDetails) |-> OrZero(AddedDetails[i][1].size)])

\* C9: totalWatchers and the size behind totalSizeGB are the sums over the detail
\* calls that succeeded, whichever source gave the inventory; the inventory's own
\* watcher and size fields add nothing.
C9_WatchersSizeFromDetails ==
  /\ totalWatchers = SubscribersAdded
  /\ totalSizeKB = SizeAdded
  /\ stats # None =>
       /\ stats[1].totalWatchers = SubscribersAdded
       /\ stats[1].totalSizeGB = ToFixed2(SizeAdded)

\* a live inventory whose items carry watchers and size; the first detail call
\* succeeded, the second failed
C9_Witness ==
  /\ stats # None /\ ~useLocalData /\ Len(repos) = 2
  /\ repos[1].watchers_count > 0 /\ repos[2].size > 0
  /\ detailOk[1] # None /\ detailOk[2] = None
  /\ stats[1].totalWatchers = 3

\* the sub-steps of a loop over n repositories
ExpectedLog(n) ==
  [k \in 1..(2 * n) |-> [step |-> IF k % 2 = 1 THEN "detail" ELSE "releases",
                         idx |-> (k + 1) \div 2]]
LoopOver == pc \in {"search", "searchResult", "render"} \/ stats # None

\* C10: the loop attempts, for each repository in inventory order, the detail call
\* and then the releases pagination, once each, whatever failed before.
C10_EnrichmentOrder ==
  /\ Len(enrichLog) <= 2 * Len(repos)
  /\ enrichLog = SubSeq(ExpectedLog(Len(repos)), 1, Len(enrichLog))
  /\ LoopOver => enrichLog = ExpectedLog(Len(repos))
  /\ (caller = "detail" /\ pc = "fetch") => req.name = repos[idx].name
  /\ pgFor = "releases" => pgName = repos[idx].name /\ enrichLog[Len(enrichLog)].idx = idx

\* the first repository's detail call and releases call both failed, the second
\* repository was enriched in full
C10_Witness ==
  /\ pc = "search" /\ useLocalData /\ Len(repos) = 2 /\ faults = 2
  /\ detailOk[1] = None /\ detailOk[2] # None
  /\ totalReleases = ReleaseCount(repos[2].name)
  /\ enrichLog = ExpectedLog(2)

\* the license identifiers of the added detail bodies, in enrichment order
LicensesAdded ==
  LET l == SelectSeq(AddedDetails, LAMBDA d : d[1].license # None)
  IN  [i \in 1..Len(l) |-> l[i][1].license[1]]
CountOf(id, s) == Cardinality({i \in 1..Len(s) : s[i] = id})
FirstAt(id, s) == CHOOSE i \in 1..Len(s) : s[i] = id /\ \A j \in 1..(i - 1) : s[j] # id
\* id has the highest count in s and, among those that have it, occurs first
Leads(id, s) ==
  /\ CountOf(id, s) > 0
  /\ \A j \in 1..Len(s) :
        \/ CountOf(id, s) > CountOf(s[j], s)
        \/ CountOf(id, s) = CountOf(s[j], s) /\ FirstAt(id, s) <= FirstAt(s[j], s)

\* C11: once the loop is over, preferredLicense is the license identifier that the
\* successful detail calls reported most often, the first encountered among those
\* tied for the maximum, and null when no successful detail call reported one; the
\* record carries it.
C11_PreferredLicense ==
  /\ LoopOver =>
       IF LicensesAdded = <<>> THEN preferredLicense = None
       ELSE preferredLicense # None /\ Leads(preferredLicense[1], LicensesAdded)
  /\ stats # None => stats[1].preferredLicense = preferredLicense

\* Apache-2.0 was encountered first, MIT twice after it: MIT is preferred
C11_Witness ==
  /\ pc = "search" /\ LicensesAdded = <<"Apache-2.0", "MIT", "MIT">>
  /\ preferredLicense = Some("MIT")

\* C12: in every record issues.drafts is 0 and totalPackages and sponsors are null,
\* whatever the remote side answered.
C12_FixedFields ==
  stats # None =>
    /\ stats[1].issues.drafts = 0
    /\ stats[1].totalPackages = None
    /\ stats[1].sponsors = None

\* a record of a run in which the remote side reported a draft pull request
C12_Witness ==
  /\ stats # None /\ stats[1].pullRequests.drafts = 1 /\ stats[1].issues.open = 4
  /\ stats[1].issues.drafts = 0 /\ stats[1].totalPackages = None

\* n / 1000 rounded to one decimal place, halves upwards, as a number of tenths
HalfUpTenths(n) == (n + 50) \div 100
\* the text the claim gives for n
RoundedToOneDecimal(n) ==
  IF n < 1000 THEN Numeral(n, None, "")
  ELSE Numeral(HalfUpTenths(n) \div 10,
               IF HalfUpTenths(n) % 10 = 0 THEN None ELSE Some(HalfUpTenths(n) % 10), "k")

\* C13: formatNumber gives the plain decimal numeral of n below 1000 and otherwise
\* n / 1000 rounded to one decimal place, a trailing ".0" removed, followed by "k".
C13_FormatNumber ==
  artifact # <<>> => artifact[1].stargazers = RoundedToOneDecimal(stats[1].totalStars)

\* the (value, color) pairs generateSVG hands to generateProgressBar
IssueValues(s) ==
  << [value |-> s.issues.open, color |-> "#22c55e"],
     [value |-> s.issues.closed, color |-> "#a855f7"] >>
PRValues(s) ==
  << [value |-> s.pullRequests.open, color |-> "#22c55e"],
     [value |-> s.pullRequests.merged, color |-> "#a855f7"],
     [value |-> s.pullRequests.closed, color |-> "#ef4444"] >>
\* bar is the bar of the claim for values and width w; a length of n units on a
\* bar of S units per pixel is n / S pixels, so value * w units are (value / S) * w
BarOf(bar, values, w) ==
  LET S == SumNums([i \in 1..Len(values) |-> values[i].value])
      nonZero == SelectSeq(values, LAMBDA v : v.value > 0)
  IN  IF S = 0
        THEN /\ Len(bar.rects) = 1 /\ bar.perPixel = 1
             /\ bar.rects[1].x = 0 /\ bar.rects[1].width = w
             /\ bar.rects[1].fill = "#3f3f46"
        ELSE /\ bar.perPixel = S
             /\ Len(bar.rects) = Len(nonZero)
             /\ \A i \in 1..Len(nonZero) :
                   /\ bar.rects[i].fill = nonZero[i].color
                   /\ bar.rects[i].width = nonZero[i].value * w
                   /\ bar.rects[i].x =
                        IF i = 1 THEN 0 ELSE bar.rects[i - 1].x + bar.rects[i - 1].width
             /\ SumNums([i \in 1..Len(bar.rects) |-> bar.rects[i].width]) = w * S

\* C14: for non-negative values of sum S and width W, generateProgressBar emits,
\* when S > 0, one rectangle per non-zero entry in input order, the first at x = 0,
\* each next where the previous ends, of width (value / S) * W, the widths summing
\* to W; when S = 0, exactly one neutral rectangle of the full width.
C14_ProgressBar ==
  artifact # <<>> =>
    /\ BarOf(artifact[1].issuesBar, IssueValues(stats[1]), BAR_WIDTH)
    /\ BarOf(artifact[1].prsBar, PRValues(stats[1]), BAR_WIDTH)

\* values 2, 0, 3: two rectangles, the second starting at 2/5 of the width
C14_Witness ==
  /\ artifact # <<>>
  /\ stats[1].pullRequests.open = 2 /\ stats[1].pullRequests.merged = 0
  /\ stats[1].pullRequests.closed = 3
  /\ Len(artifact[1].prsBar.rects) = 2 /\ artifact[1].prsBar.perPixel = 5
  /\ artifact[1].prsBar.rects[2].x = 2 * BAR_WIDTH
  /\ artifact[1].prsBar.rects[2].fill = "#ef4444"

\* text shows the label when v is null and the number v itself otherwise
ShowsOrLabel(text, v, label) ==
  IF v = None THEN text.kind = "literal" /\ text.text = label
  ELSE /\ text.kind = "numeral" /\ text.int = v[1]
       /\ text.frac = None /\ text.suffix = ""

\* C15: generateSVG shows "Various" for a null preferred license and "N/A" for a
\* null package count and a null sponsor count; a value that is not null is shown
\* itself.
C15_NullLabels ==
  artifact # <<>> =>
    /\ artifact[1].license.kind = "literal"
    /\ artifact[1].license.text =
         (IF stats[1].preferredLicense = None THEN "Various"
          ELSE stats[1].preferredLicense[1])
    /\ ShowsOrLabel(artifact[1].packages, stats[1].totalPackages, "N/A")
    /\ ShowsOrLabel(artifact[1].sponsors, stats[1].sponsors, "N/A")

\* no license and no sponsor count, but a package count of 0, which is shown
C15_Witness ==
  /\ artifact # <<>>
  /\ stats[1].preferredLicense = None /\ stats[1].sponsors = None
  /\ stats[1].totalPackages = Some(0)
  /\ artifact[1].license.text = "Various" /\ artifact[1].sponsors.kind = "literal"
  /\ artifact[1].packages.kind = "numeral" /\ artifact[1].packages.int = 0

\* the place of a request in the program: the listing pages, then per repository
\* in inventory order the detail call and the release pages, then the six searches
IndexOf(name) == CHOOSE i \in 1..Len(repos) : repos[i].name = name
QueryIndex(q) == CHOOSE k \in 1..NumQueries : Queries[k] = q
CallRank(u) ==
  CASE u.ep = "listing" -> <<0, 0, 0, u.page>>
    [] u.ep = "detail" -> <<1, IndexOf(u.name), 0, 0>>
    [] u.ep = "releases" -> <<1, IndexOf(u.name), 1, u.page>>
    [] u.ep = "search" -> <<2, QueryIndex(u.name), 0, 0>>
    [] OTHER -> <<-1, 0, 0, 0>>
LexLess(a, b) ==
  \E k \in 1..4 : a[k] < b[k] /\ \A j \in 1..(k - 1) : a[j] = b[j]

\* at most one request is in flight, none during the pause, and whenever
\* fetchWithAuth has ended on a success status its pause has elapsed
OneAtATime ==
  /\ inFlight \in {0, 1}
  /\ inFlight = 1 <=> pc = "fetch"
  /\ pc = "sleep" => LastServed.kind = "http" /\ LastServed.ok /\ slept = 0
  /\ (FetchEnded /\ LastServed.kind = "http" /\ LastServed.ok) => slept = 200
\* a step that issues a request does so with none in flight, no pause pending,
\* and for a request later in program order than the one before
IssuedInOrder ==
  inFlight' > inFlight =>
    /\ inFlight = 0 /\ pc \notin {"fetch", "sleep"}
    /\ LexLess(CallRank(lastCall), CallRank(lastCall'))

\* C16: execution is sequential: at most one remote call is in flight at any moment,
\* calls are issued in program order, and after every call that succeeded the 200 ms
\* pause elapses before the next call is issued.
C16_Sequential == []OneAtATime /\ [][IssuedInOrder]_vars

\* the second repository's detail call is in flight, after the first repository's
\* detail call and release page were answered and paused for
C16_Witness ==
  /\ pc = "fetch" /\ inFlight = 1 /\ faults = 0 /\ caller = "detail" /\ idx = 2
  /\ lastCall.ep = "detail" /\ Len(detailOk) = 1 /\ detailOk[1] # None

\* C17: the artifact is written at most once in a run, whole, and only once every
\* remote call (the enrichment and the six searches) has finished and the record
\* is complete; a run that succeeds has written it exactly once and exits 0.
C17_ArtifactOnce ==
  /\ Len(artifact) <= 1
  /\ "writeFileSync" \in fsOps <=> artifact # <<>>
  /\ artifact # <<>> =>
       /\ pc = "exit" /\ exitCode = Some(0)
       /\ inFlight = 0 /\ lastCall.ep = "search" /\ lastCall.name = Queries[NumQueries]
       /\ enrichLog = ExpectedLog(Len(repos)) /\ Len(counts) = NumQueries
       /\ stats # None /\ artifact[1] = generateSVG(stats[1])
  /\ exitCode = Some(0) => Len(artifact) = 1 /\ pc = "exit"
  /\ (exitCode # None /\ exitCode # Some(0)) => artifact = <<>>

\* a run over a live inventory that met two failures has written the artifact
C17_Witness ==
  /\ pc = "exit" /\ exitCode = Some(0) /\ Len(artifact) = 1
  /\ ~useLocalData /\ Len(repos) = 2 /\ faults = 2

\* the snapshot file is present, readable and JSON.parse accepts it
SnapshotParses == cache.kind = "json"
\* ... and the value is an object whose repos is a list without a null entry
SnapshotUsable == SnapshotParses /\ ~CacheReadFails
\* fetchOrgStats is past the try/catch over the snapshot file
PastSnapshot == token /\ pc \notin {"load", "main"}
\* the repository list is the snapshot's entries, in order
ReposAreEntries ==
  LET l == cache.value.repos[1]
  IN  /\ Len(repos) = Len(l)
      /\ \A i \in 1..Len(l) :
            /\ repos[i].name = l[i].name
            /\ repos[i].stargazers_count = l[i].stars
            /\ repos[i].forks_count = l[i].forks
\* the listing has just been assigned: its answers are still in `served`
ListingAssigned == lastCall.ep = "listing" /\ pc \in {"enrich", "failed"}
\* without the snapshot the run goes on to the listing, and the repository list is
\* what fetchAllPages returned for it
FromListing ==
  /\ ~useLocalData
  /\ pc \notin {"inventory", "exit"} => pgFor = "listing" \/ netCalls
  /\ pc = "failed" => lastCall.ep = "listing"
  /\ (pc = "inventory" \/ pgFor = "listing") => repos = <<>>
  /\ ListingAssigned => repos = ItemsOf(served)

\* C18 as stated: a snapshot file that is present and parseable gives the repository
\* list and no listing call is issued; an absent or unparsable one is not an error
\* and the list is what the paginator returns for the listing endpoint.
C18_SnapshotOrListing ==
  /\ SnapshotParses =>
       /\ lastCall.ep # "listing"
       /\ PastSnapshot => useLocalData /\ ReposAreEntries
  /\ (~SnapshotParses /\ PastSnapshot) => FromListing

\* C18, amended: a snapshot file that is present, parseable and holds a repos list
\* without null entries gives the repository list and no listing call is issued;
\* any other snapshot file (absent, unreadable, unparsable, or of another shape) is
\* not an error and the list is what the paginator returns for the listing endpoint.
C18_UsableSnapshotOrListing ==
  /\ SnapshotUsable =>
       /\ lastCall.ep # "listing" /\ pgFor # "listing"
       /\ PastSnapshot => useLocalData /\ ReposAreEntries
  /\ (~SnapshotUsable /\ PastSnapshot) => FromListing

\* the snapshot parses to null; the listing has returned two repositories
C18_Witness ==
  /\ SnapshotParses /\ IsNull(cache.value)
  /\ ListingAssigned /\ pc = "enrich" /\ Len(repos) = 2 /\ repos = ItemsOf(served)

\* the searches are made after the loop, in the order of Queries, each count kept at
\* its own place, which holds the reported total or, after a failure, 0
SearchBattery ==
  /\ Len(counts) <= NumQueries
  /\ (caller = "search" /\ pc \in {"fetch", "sleep", "searchResult"}) =>
       /\ req = [ep |-> "search", name |-> Queries[Len(counts) + 1], page |-> 0]
       /\ idx > Len(repos) /\ enrichLog = ExpectedLog(Len(repos)) /\ pgFor = "none"
  /\ \A k \in 1..Len(counts) : counts[k] \in {SearchTotal(Queries[k]), 0}
  /\ stats # None =>
       /\ Len(counts) = NumQueries
       /\ stats[1].issues.open = counts[1] /\ stats[1].issues.closed = counts[2]
       /\ stats[1].pullRequests.open = counts[3] /\ stats[1].pullRequests.merged = counts[4]
       /\ stats[1].pullRequests.closed = counts[5] /\ stats[1].pullRequests.drafts = counts[6]

\* C19: every run that passes the credential check makes exactly six searches,
\* after the enrichment of every repository, in the fixed order, whatever failed
\* before; each result goes to its own field and a failed search zeroes only its own.
C19_SixSearches ==
  /\ SearchBattery
  /\ (token /\ pc = "exit") => Len(counts) = NumQueries /\ stats # None

\* the organization of the scenario: repositories a and b as the inventory, both
\* detail calls answered, one release each, the six totals, and no failure
ScenarioInputs ==
  /\ faults = 0
  /\ Len(repos) = 2
  /\ repos[1].stargazers_count = Some(10) /\ repos[2].stargazers_count = Some(20)
  /\ repos[1].forks_count = Some(1) /\ repos[2].forks_count = Some(2)
  /\ Len(detailOk) = 2 /\ detailOk[1] # None /\ detailOk[2] # None
  /\ detailOk[1][1].size = Some(512) /\ detailOk[2][1].size = Some(1536)
  /\ detailOk[1][1].subscribers_count = Some(3)
  /\ detailOk[2][1].subscribers_count = Some(5)
  /\ detailOk[1][1].license = Some("MIT") /\ detailOk[2][1].license = Some("MIT")
  /\ ReleaseCounts(repos[1].name) = {1} /\ ReleaseCounts(repos[2].name) = {1}
  /\ [k \in 1..NumQueries |-> SearchTotal(Queries[k])] = <<4, 6, 1, 2, 0, 1>>

\* C20: for that organization the record has totalRepos 2, totalStars 30,
\* totalForks 3, totalWatchers 8, totalReleases 2, totalSizeGB "0.00" (0 hundredths),
\* preferredLicense "MIT", issues {4, 6, 0} and pullRequests {1, 2, 0, 1}, and the
\* rendered issue bar has two segments of widths in ratio 4:6 that sum to 180.
C20_Scenario ==
  (ScenarioInputs /\ stats # None) =>
    /\ stats[1] =
         [ totalRepos |-> 2, totalStars |-> 30, totalForks |-> 3, totalWatchers |-> 8,
           totalReleases |-> 2, totalPackages |-> None, totalSizeGB |-> 0,
           preferredLicense |-> Some("MIT"), sponsors |-> None,
           issues |-> [open |-> 4, closed |-> 6, drafts |-> 0],
           pullRequests |-> [open |-> 1, merged |-> 2, closed |-> 0, drafts |-> 1] ]
    /\ artifact # <<>> =>
         LET bar == artifact[1].issuesBar
         IN  /\ Len(bar.rects) = 2
             /\ bar.rects[1].width * 6 = bar.rects[2].width * 4
             /\ bar.rects[1].width + bar.rects[2].width = 180 * bar.perPixel

\* the scenario over a live inventory, the artifact written
C20_Witness ==
  /\ ScenarioInputs /\ stats # None /\ ~useLocalData
  /\ pc = "exit" /\ artifact # <<>>
  /\ stats[1].totalStars = 30 /\ stats[1].totalReleases = 2

\* with progress every run ends, by the return of main or by an exit
EventuallyExits == <>(pc = "exit")

\* C21: started with the credential, and every remote call returning or throwing,
\* every run eventually finishes its pagination loops, the enrichment loop and the
\* six searches, writes the artifact and exits.
C21_RunsToCompletion ==
  token ~> (pc = "exit" /\ Len(counts) = NumQueries /\ Len(artifact) = 1)

\* the count of id in a tally
TallyOf(lc, id) ==
  IF \E i \in 1..Len(lc) : lc[i].id = id
    THEN lc[CHOOSE i \in 1..Len(lc) : lc[i].id = id].n
    ELSE 0
TalliedIds(lc) == {lc[i].id : i \in 1..Len(lc)}
\* the step that takes the result of a detail call answered with r: after a failure
\* (a rejected fetch, a non-success status, an unparsable or null body) the three
\* accumulators stay; otherwise all three take the body's contribution
DetailAllOrNothing ==
  pc = "detailResult" =>
    LET r == LastServed
    IN  IF Throws(r) \/ r.body.t = "null"
          THEN /\ totalWatchers' = totalWatchers
               /\ totalSizeKB' = totalSizeKB
               /\ licenseCount' = licenseCount
          ELSE /\ totalWatchers' = totalWatchers + OrZero(r.body.subscribers_count)
               /\ totalSizeKB' = totalSizeKB + OrZero(r.body.size)
               /\ \A id \in TalliedIds(licenseCount) \cup TalliedIds(licenseCount') :
                     TallyOf(licenseCount', id) =
                       TallyOf(licenseCount, id)
                         + (IF r.body.license = Some(id) THEN 1 ELSE 0)
               /\ r.body.license # None => TallyOf(licenseCount', r.body.license[1]) > 0
\* no other step touches the three accumulators
OnlyDetailAdds ==
  pc # "detailResult" =>
    /\ totalWatchers' = totalWatchers
    /\ totalSizeKB' = totalSizeKB
    /\ licenseCount' = licenseCount

\* C22: a repository's detail call contributes all or nothing: after a failed call
\* totalWatchers, the kilobyte total and the license tally are as before that
\* repository; after a successful one its subscriber count, its size and, if
\* present, its license are all added; no step updates one and not another.
C22_DetailAllOrNothing == [][DetailAllOrNothing /\ OnlyDetailAdds]_vars

\* over a live inventory whose items carry a license, the first repository's
\* detail call failed and the second's succeeded
C22_Witness ==
  /\ ~useLocalData /\ pc = "pageLoop" /\ idx = 2 /\ Len(detailOk) = 2
  /\ detailOk[1] = None /\ detailOk[2] # None /\ repos[1].license # None
  /\ totalWatchers = 5 /\ totalSizeKB = 1536 /\ licenseCount = <<[id |-> "MIT", n |-> 1]>>

\* GET has returned exactly when there is a response, and never throws
RouteReturns ==
  /\ routePc # "threw"
  /\ routePc = "done" <=> response # None
\* what each step of GET answers, from the file as it is when the step is taken
RouteAnswers ==
  /\ (routePc = "start" /\ routePc' # "start") =>
       IF analytics.kind = "absent"
         THEN /\ routePc' = "done" /\ response' # None
              /\ response'[1].status = 404 /\ response'[1].error
         ELSE routePc' = "read" /\ response' = None
  /\ (routePc = "read" /\ routePc' # "read") =>
       /\ routePc' = "done" /\ response' # None
       /\ IF analytics.kind = "text" /\ analytics.parses
            THEN /\ response'[1].status = 200 /\ ~response'[1].error
                 /\ response'[1].body.value = analytics.value
            ELSE response'[1].status = 500 /\ response'[1].error

\* C23: GET never throws; it answers 404 with an error body when the file does not
\* exist, 500 with an error body when the file exists but cannot be read or parsed,
\* also when it disappears between the check and the read, and otherwise 200 with
\* the parsed content of the file.
C23_RouteNeverThrows == []RouteReturns /\ [][RouteAnswers]_vars

\* the file was there at the check and gone at the read: 500
C23_Witness ==
  /\ routePc = "done" /\ fileChanges = 1 /\ analytics.kind = "absent"
  /\ response # None /\ response[1].status = 500 /\ response[1].error

====
